---- MODULE Spec2Model ----
(***************************************************************************)
(* Model of MovaryApp (src/index.js, lines 170-411): the single-route      *)
(* page that authenticates against the Movary API, fetches the newest      *)
(* watchlist entry and renders it into a fixed HTML shell.                 *)
(*                                                                         *)
(* JavaScript values are tagged records ([t |-> "string", s |-> ...]).     *)
(* A string is a sequence of characters; a literal chunk of a template is  *)
(* one element of that sequence.  A call that may throw returns a Result   *)
(* record: [thrown, value, error].                                         *)
(***************************************************************************)
EXTENDS Integers, Sequences, FiniteSets, TLC

VARIABLES
  NEXT_DT,        \* this.NEXT_DT, read from the environment by the constructor
  pc,             \* where each call of render stands
  customMessage,  \* render: const customMessage
  apiToken,       \* render: const apiToken
  movieEntry,     \* render: let movieEntry
  htmlContent,    \* render: let htmlContent
  authResp,       \* the upstream's answer to each request's axios.post
  fetchResp,      \* the upstream's answer to each request's axios.get
  authCalls,      \* axios.post calls each request has made
  fetchCalls,     \* axios.get calls each request has made
  fetchToken,     \* the X-Movary-Token header of each request's axios.get
  caught,         \* render: the error of catch (error), <<>> when none
  display,        \* the branch of render that set htmlContent
  sent            \* the responses res.send has sent for each request

vars == <<NEXT_DT, pc, customMessage, apiToken, movieEntry, htmlContent,
          authResp, fetchResp, authCalls, fetchCalls, fetchToken,
          caught, display, sent>>

\* Number of page requests the server handles concurrently.
NReq == 2

\* Longest result list an upstream that ignores the limit parameter returns.
MaxList == 2

\* params.limit of the watchlist call: the upstream returns at most this many.
Limit == 1

Reqs == 1 .. NReq

----------------------------------------------------------------------------
\* JavaScript values

Undefined == [t |-> "undefined"]

Null == [t |-> "null"]

Str(s) == [t |-> "string", s |-> s]

Num(n) == [t |-> "number", n |-> n]

Arr(items) == [t |-> "array", items |-> items]

\* ToBoolean, as applied by if (...), && and ||
Truthy(v) ==
  CASE v.t = "undefined" -> FALSE
    [] v.t = "null" -> FALSE
    [] v.t = "string" -> v.s # <<>>
    [] v.t = "number" -> v.n # 0
    [] OTHER -> TRUE

\* String(v), as applied by ${...} in a template literal
ToText(v) ==
  CASE v.t = "undefined" -> <<"undefined">>
    [] v.t = "null" -> <<"null">>
    [] v.t = "string" -> v.s
    [] v.t = "number" -> <<ToString(v.n)>>
    [] OTHER -> <<"[object Object]">>

Ok(v) == [thrown |-> FALSE, value |-> v, error |-> <<>>]

Throw(msg) == [thrown |-> TRUE, value |-> Undefined, error |-> msg]

TypeErrorText == <<"TypeError: Cannot read properties">>

NotAFunctionText == <<"TypeError: substring is not a function">>

\* obj.name : throws on undefined and null, yields undefined for a missing field
GetProp(obj, name) ==
  IF obj.t \in {"undefined", "null"} THEN Throw(TypeErrorText)
  ELSE IF name \in DOMAIN obj THEN Ok(obj[name])
  ELSE Ok(Undefined)

\* v[0]
First(v) ==
  IF v.t \in {"undefined", "null"} THEN Throw(TypeErrorText)
  ELSE IF v.t = "array" /\ Len(v.items) > 0 THEN Ok(v.items[1])
  ELSE Ok(Undefined)

\* s contains part as a contiguous run
Contains(s, part) ==
  \E i \in 1 .. (Len(s) - Len(part) + 1) : SubSeq(s, i, i + Len(part) - 1) = part

----------------------------------------------------------------------------
\* Date Formatter

\* An ISO-8601 datetime string, named by the local-time fields it parses to
IsoString(mo, d, h, mi) ==
  [t |-> "string", s |-> <<"iso-8601">>, iso |-> [mo |-> mo, d |-> d, h |-> h, mi |-> mi]]

\* new Date(string): an Invalid Date for a string that does not parse;
\* getMonth() counts from 0
NewDate(v) ==
  IF "iso" \in DOMAIN v
  THEN [valid |-> TRUE, getMonth |-> v.iso.mo - 1, getDate |-> v.iso.d,
        getHours |-> v.iso.h, getMinutes |-> v.iso.mi]
  ELSE [valid |-> FALSE, getMonth |-> 0, getDate |-> 0, getHours |-> 0, getMinutes |-> 0]

\* Number.prototype.toString() of 0..99
NumToString(n) ==
  IF n < 10 THEN <<ToString(n)>> ELSE <<ToString(n \div 10), ToString(n % 10)>>

RECURSIVE PadStart(_, _, _)
PadStart(s, n, c) == IF Len(s) >= n THEN s ELSE PadStart(<<c>> \o s, n, c)

NotSetMessage == <<"NEXT_DT environment variable not set.">>

InvalidMessage == <<"Invalid date format in environment variable.">>

InvalidDateText == <<"Invalid date format.">>

MonthOfNoOffset(date) == date.getMonth

\* (date.getMonth() + 1)
MonthOf(date) == date.getMonth + 1

\* minutes === 0
MinuteIsZero(date) == date.getMinutes = 0

\* the body of the try block of getDatetimeString
FormatDate(nextDt) ==
  LET date == NewDate(nextDt) IN
  IF ~date.valid THEN Throw(InvalidDateText)
  ELSE
    LET month == PadStart(NumToString(MonthOf(date)), 2, "0")
        day == PadStart(NumToString(date.getDate), 2, "0")
        hours == NumToString(date.getHours)
        timeString ==
          IF MinuteIsZero(date) THEN hours \o <<"0", "0">>
          ELSE hours \o <<":">> \o PadStart(NumToString(date.getMinutes), 2, "0")
    IN Ok(Str(month \o <<" ", "/", " ">> \o day \o <<" ", "-", " ">> \o timeString))

CatchInvalidDateRethrow(res) == res

\* catch (error) of getDatetimeString
CatchInvalidDate(res) == IF res.thrown THEN Ok(Str(InvalidMessage)) ELSE res

getDatetimeString(nextDt) ==
  IF ~Truthy(nextDt) THEN Ok(Str(NotSetMessage))
  ELSE CatchInvalidDate(FormatDate(nextDt))

----------------------------------------------------------------------------
\* Upstream responses

RECURSIVE SeqsUpTo(_, _)
\* all sequences over S of length 0 .. n
SeqsUpTo(S, n) ==
  IF n = 0 THEN {<<>>}
  ELSE LET shorter == SeqsUpTo(S, n - 1)
       IN shorter \cup {Append(q, x) : q \in {p \in shorter : Len(p) = n - 1}, x \in S}

NetworkError == [kind |-> "neterr", status |-> 0, data |-> Undefined]

Http(status, data) == [kind |-> "http", status |-> status, data |-> data]

\* The token the upstream issues in answer to request r's authentication
\* call: every call is answered with a token of its own.
IssuedToken(r) == Str(<<"token-", ToString(r)>>)

AuthResponses(r) ==
  { NetworkError,
    Http(401, [t |-> "object", error |-> Str(<<"Unauthorized">>)]),
    Http(200, Null),
    Http(200, [t |-> "object"]),
    Http(200, [t |-> "object", token |-> IssuedToken(r)]),
    Http(200, [t |-> "object", authToken |-> Str(<<>>)]),
    Http(200, [t |-> "object", authToken |-> IssuedToken(r)]) }

Movie(title, posterPath, releaseDate, overview) ==
  [t |-> "object", title |-> title, posterPath |-> posterPath,
   releaseDate |-> releaseDate, overview |-> overview]

Dune ==
  Movie(Str(<<"D", "u", "n", "e">>), Str(<<"/", "d", ".", "j", "p", "g">>),
        Str(<<"2", "0", "2", "1", "-", "1", "0", "-", "2", "2">>),
        Str(<<"A", " ", "d", "u", "k", "e", ".">>))

Alien ==
  Movie(Str(<<"A", "l", "i", "e", "n">>), Str(<<"/", "a", ".", "p", "n", "g">>),
        Str(<<"1", "9", "7", "9", "-", "0", "5", "-", "2", "5">>),
        Str(<<"I", "n", " ", "s", "p", "a", "c", "e">>))

Movies ==
  { Dune, Alien,
    Movie(Str(<<"D", "u", "n", "e">>), Str(<<"/", "d", ".", "j", "p", "g">>),
          Str(<<"9", "9">>), Str(<<"A", " ", "d", "u", "k", "e", ".">>)),
    Movie(Str(<<"D", "u", "n", "e">>), Str(<<"/", "d", ".", "j", "p", "g">>),
          Null, Str(<<"A", " ", "d", "u", "k", "e", ".">>)),
    Movie(Str(<<"D", "u", "n", "e">>), Str(<<"/", "d", ".", "j", "p", "g">>),
          Num(2021), Str(<<"A", " ", "d", "u", "k", "e", ".">>)) }

AddedAt == Str(<<"2025-09-01T10:00:00Z">>)

Entries ==
  { [t |-> "object", movie |-> m, addedAt |-> AddedAt] : m \in Movies }
  \cup { [t |-> "object", movie |-> Null, addedAt |-> AddedAt],
         [t |-> "object", addedAt |-> AddedAt] }

\* what the upstream may answer to the watchlist call, with result lists of
\* at most n entries
FetchResponses(n) ==
  { NetworkError,
    Http(500, [t |-> "object", error |-> Str(<<"Internal">>)]),
    Http(200, Null),
    Http(200, [t |-> "object"]),
    Http(200, [t |-> "object", data |-> Arr(<<>>)]) }
  \cup { Http(200, [t |-> "object", watchlist |-> Arr(l)]) : l \in SeqsUpTo(Entries, n) }

----------------------------------------------------------------------------
\* Authenticator and Watchlist Fetcher

\* axios.post / axios.get: rejects on a transport error and on a status
\* outside 2xx, resolves with the response otherwise
Axios(resp) ==
  IF resp.kind = "neterr" THEN Throw(<<"Network Error">>)
  ELSE IF resp.status < 200 \/ resp.status > 299
       THEN Throw(<<"Request failed with status code ", ToString(resp.status)>>)
  ELSE Ok(resp)

getAuthToken(resp) ==
  LET response == Axios(resp) IN
  IF response.thrown THEN Ok(Null)
  ELSE LET token == GetProp(response.value.data, "authToken")
       IN IF token.thrown THEN Ok(Null) ELSE token

\* movieEntry || null
OrNull(v) == IF Truthy(v) THEN v ELSE Null

getLastAddedMovieLast(resp) ==
  LET response == Axios(resp) IN
  IF response.thrown THEN Ok(Null)
  ELSE LET watchlist == GetProp(response.value.data, "watchlist") IN
       IF watchlist.thrown THEN Ok(Null)
       ELSE IF watchlist.value.t = "array" /\ Len(watchlist.value.items) > 0
            THEN Ok(watchlist.value.items[Len(watchlist.value.items)])
       ELSE Ok(Null)

getLastAddedMovie(resp) ==
  LET response == Axios(resp) IN
  IF response.thrown THEN Ok(Null)
  ELSE LET watchlist == GetProp(response.value.data, "watchlist") IN
       IF watchlist.thrown THEN Ok(Null)
       ELSE LET movieEntry_ == First(watchlist.value) IN
            IF movieEntry_.thrown THEN Ok(Null)
            ELSE Ok(OrNull(movieEntry_.value))

----------------------------------------------------------------------------
\* Page Renderer

CardOpen == <<"<div class='movie-card'>">>

MessageOpen == <<"<div class='message'>">>

ErrorOpen == <<"<div class='error-message'>">>

InfoOpen == <<"<p class='movie-info'>">>

InfoClose == <<"</p><hr>">>

\* String.prototype.substring(a, b) for 0 <= a <= b; a TypeError on a value
\* that has no such method
Substring(v, a, b) ==
  IF v.t # "string" THEN Throw(NotAFunctionText)
  ELSE Ok(SubSeq(v.s, a + 1, IF b < Len(v.s) THEN b ELSE Len(v.s)))

YearOfTwo(releaseDate) ==
  IF Truthy(releaseDate) THEN Substring(releaseDate, 0, 2) ELSE Ok(<<"N/A">>)

\* movieData.releaseDate ? movieData.releaseDate.substring(0, 4) : 'N/A'
YearOf(releaseDate) ==
  IF Truthy(releaseDate) THEN Substring(releaseDate, 0, 4) ELSE Ok(<<"N/A">>)

\* the template literal of the movie card
MovieCard(movieEntry_, customMessage_) ==
  LET movieData == GetProp(movieEntry_, "movie").value
      posterPath == GetProp(movieData, "posterPath")
      title == GetProp(movieData, "title")
      releaseDate == GetProp(movieData, "releaseDate")
      overview == GetProp(movieData, "overview")
  IN IF posterPath.thrown THEN posterPath
     ELSE LET year == YearOf(releaseDate.value) IN
          IF year.thrown THEN year
          ELSE Ok(CardOpen
                  \o <<"<img src='">> \o ToText(posterPath.value)
                  \o <<"' alt='">> \o ToText(title.value)
                  \o <<" Poster' class='movie-poster'>">>
                  \o <<"<h1 class='movie-title'>">> \o ToText(title.value) \o <<"</h1>">>
                  \o InfoOpen \o year.value \o InfoClose
                  \o <<"<p class='movie-info movie-overview'>">>
                  \o ToText(overview.value) \o InfoClose
                  \o <<"<p class='custom-message'>Showing: ">>
                  \o ToText(customMessage_) \o <<"</p>">>
                  \o <<"</div>">>)

NoDataFragment ==
  MessageOpen \o <<"<p>Could not retrieve movie data or no movies found.</p>">>
  \o <<"</div>">>

ErrorFragmentLeak(error) ==
  ErrorOpen \o <<"<h1>Server Error</h1>">> \o <<"<p>">> \o error \o <<"</p>">>
  \o <<"</div>">>

\* the catch block of render: the error is logged, never put into the page
ErrorFragment(error) ==
  ErrorOpen \o <<"<h1>Server Error</h1>">>
  \o <<"<p>An unexpected error occurred while processing your request.</p>">>
  \o <<"</div>">>

HasMovieEntryOnly(movieEntry_) == Truthy(movieEntry_)

\* movieEntry && movieEntry.movie
HasMovie(movieEntry_) ==
  Truthy(movieEntry_) /\ Truthy(GetProp(movieEntry_, "movie").value)

\* the if / else that builds htmlContent inside the try block
BuildHtml(movieEntry_, customMessage_) ==
  IF HasMovie(movieEntry_) THEN MovieCard(movieEntry_, customMessage_)
  ELSE Ok(NoDataFragment)

ShellHead == <<"<!DOCTYPE html><html lang='en'><head>...</head><body>">>

ShellTail == <<"</body></html>">>

\* the template literal handed to res.send
PageShell(html) == ShellHead \o html \o ShellTail

ResSendErrorStatus(body) ==
  [status |-> IF Contains(body, ErrorOpen) THEN 500 ELSE 200, body |-> body]

\* res.send(body): no status is set, so the response goes out as 200
ResSend(body) == [status |-> 200, body |-> body]

ShouldFetchAlways(token) == TRUE

\* if (apiToken)
ShouldFetch(token) == Truthy(token)

AfterAuthRetry(token) == IF ShouldFetch(token) THEN "Fetching" ELSE "Started"

\* where render stands once getAuthToken has returned
AfterAuth(token) == IF ShouldFetch(token) THEN "Fetching" ELSE "Done"

HeaderTokenCached(r) ==
  IF \E q \in Reqs \ {r} : Truthy(apiToken[q])
  THEN apiToken[CHOOSE q \in Reqs \ {r} : Truthy(apiToken[q])]
  ELSE apiToken'[r]

\* 'X-Movary-Token': token, the apiToken local of this call of render
HeaderToken(r) == apiToken'[r]

----------------------------------------------------------------------------
\* State machine: one instance of render per page request

NoResponse == [kind |-> "none", status |-> 0, data |-> Undefined]

\* values of NEXT_DT the pipeline is run under
SampleDatetimes ==
  { Undefined, Str(<<"n", "o", "t", " ", "a", " ", "d", "a", "t", "e">>),
    IsoString(9, 13, 22, 0), IsoString(12, 5, 9, 5) }

\* values of NEXT_DT that are unset, empty or do not parse as a date
MalformedDatetimes ==
  { Undefined, Str(<<>>), Str(<<"n", "o", "t", " ", "a", " ", "d", "a", "t", "e">>) }

\* the constructor has read the environment; no request has arrived
InitRequests ==
  /\ pc = [r \in Reqs |-> "Idle"]
  /\ customMessage = [r \in Reqs |-> Undefined]
  /\ apiToken = [r \in Reqs |-> Undefined]
  /\ movieEntry = [r \in Reqs |-> Null]
  /\ htmlContent = [r \in Reqs |-> <<>>]
  /\ authResp = [r \in Reqs |-> NoResponse]
  /\ fetchResp = [r \in Reqs |-> NoResponse]
  /\ authCalls = [r \in Reqs |-> 0]
  /\ fetchCalls = [r \in Reqs |-> 0]
  /\ fetchToken = [r \in Reqs |-> Undefined]
  /\ caught = [r \in Reqs |-> <<>>]
  /\ display = [r \in Reqs |-> "None"]
  /\ sent = [r \in Reqs |-> <<>>]

Init ==
  /\ NEXT_DT \in SampleDatetimes
  /\ InitRequests

\* GET / arrives: render starts and awaits getDatetimeString, outside the
\* try block, so an exception here would reject render with nothing sent
Arrive(r) ==
  /\ pc[r] = "Idle"
  /\ LET message == getDatetimeString(NEXT_DT) IN
     IF message.thrown
     THEN /\ pc' = [pc EXCEPT ![r] = "Rejected"]
          /\ UNCHANGED customMessage
     ELSE /\ pc' = [pc EXCEPT ![r] = "Started"]
          /\ customMessage' = [customMessage EXCEPT ![r] = message.value]
  /\ UNCHANGED <<NEXT_DT, apiToken, movieEntry, htmlContent, authResp, fetchResp,
                 authCalls, fetchCalls, fetchToken, caught, display, sent>>

\* render resumes and getAuthToken posts the credentials
AuthCall(r) ==
  /\ pc[r] = "Started"
  /\ pc' = [pc EXCEPT ![r] = "Authenticating"]
  /\ authCalls' = [authCalls EXCEPT ![r] = @ + 1]
  /\ UNCHANGED <<NEXT_DT, customMessage, apiToken, movieEntry, htmlContent, authResp,
                 fetchResp, fetchCalls, fetchToken, caught, display, sent>>

\* the rest of the try block once movieEntry is settled, the catch block
\* when anything in the try block has thrown, then res.send; attempt is the
\* Result of the last call made inside the try block
Respond(r, attempt) ==
  LET built == IF attempt.thrown THEN attempt
               ELSE BuildHtml(attempt.value, customMessage[r])
      html == IF built.thrown THEN ErrorFragment(built.error) ELSE built.value
  IN /\ htmlContent' = [htmlContent EXCEPT ![r] = html]
     /\ caught' = [caught EXCEPT ![r] = IF built.thrown THEN built.error ELSE <<>>]
     /\ display' = [display EXCEPT ![r] =
                      IF built.thrown THEN "Error"
                      ELSE IF HasMovie(attempt.value) THEN "Found" ELSE "Empty"]
     /\ sent' = [sent EXCEPT ![r] = Append(@, ResSend(PageShell(html)))]

\* the authentication call settles with resp; render goes on to the
\* watchlist call, or straight to the page when there is no token
AuthReturn(r, resp) ==
  /\ pc[r] = "Authenticating"
  /\ authResp' = [authResp EXCEPT ![r] = resp]
  /\ LET token == getAuthToken(resp) IN
     IF token.thrown
     THEN /\ Respond(r, token)
          /\ pc' = [pc EXCEPT ![r] = "Done"]
          /\ UNCHANGED <<apiToken, fetchCalls, fetchToken>>
     ELSE /\ apiToken' = [apiToken EXCEPT ![r] = token.value]
          /\ pc' = [pc EXCEPT ![r] = AfterAuth(token.value)]
          /\ IF ShouldFetch(token.value)
             THEN /\ fetchCalls' = [fetchCalls EXCEPT ![r] = @ + 1]
                  /\ fetchToken' = [fetchToken EXCEPT ![r] = HeaderToken(r)]
                  /\ UNCHANGED <<htmlContent, caught, display, sent>>
             ELSE /\ Respond(r, Ok(movieEntry[r]))
                  /\ UNCHANGED <<fetchCalls, fetchToken>>
  /\ UNCHANGED <<NEXT_DT, customMessage, movieEntry, fetchResp, authCalls>>

\* the watchlist call settles with resp; render builds and sends the page
FetchReturn(r, resp) ==
  /\ pc[r] = "Fetching"
  /\ fetchResp' = [fetchResp EXCEPT ![r] = resp]
  /\ LET entry == getLastAddedMovie(resp) IN
     /\ movieEntry' = [movieEntry EXCEPT ![r] = IF entry.thrown THEN @ ELSE entry.value]
     /\ Respond(r, entry)
  /\ pc' = [pc EXCEPT ![r] = "Done"]
  /\ UNCHANGED <<NEXT_DT, customMessage, apiToken, authResp, authCalls, fetchCalls,
                 fetchToken>>

\* concurrent requests against an upstream that honours limit
Next ==
  \E r \in Reqs :
    \/ Arrive(r)
    \/ AuthCall(r)
    \/ \E resp \in AuthResponses(r) : AuthReturn(r, resp)
    \/ \E resp \in FetchResponses(Limit) : FetchReturn(r, resp)

Spec == Init /\ [][Next]_vars

\* one request against an upstream that may return a longer list
NextFetch ==
  \/ Arrive(1)
  \/ AuthCall(1)
  \/ \E resp \in AuthResponses(1) : AuthReturn(1, resp)
  \/ \E resp \in FetchResponses(MaxList) : FetchReturn(1, resp)

SpecFetch == Init /\ [][NextFetch]_vars

\* the Date Formatter applied to every value of NEXT_DT
InitFmt ==
  /\ \/ NEXT_DT \in MalformedDatetimes
     \/ \E mo \in 1 .. 12, d \in 1 .. 31, h \in 0 .. 23, mi \in 0 .. 59 :
          NEXT_DT = IsoString(mo, d, h, mi)
  /\ InitRequests

NextFmt == Arrive(1)

SpecFmt == InitFmt /\ [][NextFmt]_vars

----------------------------------------------------------------------------
\* Properties

Answered(resp) == resp.kind # "none"

Is2xx(resp) == resp.kind = "http" /\ resp.status >= 200 /\ resp.status <= 299

\* the authentication response carries a token: a 2xx response whose body
\* has a non-empty authToken field
GotToken(resp) ==
  /\ Is2xx(resp)
  /\ resp.data.t = "object"
  /\ "authToken" \in DOMAIN resp.data
  /\ resp.data.authToken.t = "string"
  /\ resp.data.authToken.s # <<>>

\* the body of the one response of a finished request
Body(r) == sent[r][1].body

\* C1: the watchlist call is issued if and only if the authentication
\* response carried a token; when it carried none (transport error, non-2xx,
\* 2xx without the token field) the request issues no watchlist call, raises
\* nothing and answers with the "no data" fragment.
C1_FetchIffToken ==
  \A r \in Reqs :
    /\ fetchCalls[r] > 0 => GotToken(authResp[r])
    /\ Answered(authResp[r]) /\ GotToken(authResp[r]) => fetchCalls[r] = 1
    /\ Answered(authResp[r]) /\ ~GotToken(authResp[r]) =>
         /\ fetchCalls[r] = 0
         /\ pc[r] = "Done"
         /\ caught[r] = <<>>
         /\ Len(sent[r]) = 1
         /\ Contains(Body(r), NoDataFragment)
         /\ ~Contains(Body(r), CardOpen)
         /\ ~Contains(Body(r), ErrorOpen)

C1_Witness ==
  \E r \in Reqs :
    /\ authResp[r] = Http(401, [t |-> "object", error |-> Str(<<"Unauthorized">>)])
    /\ pc[r] = "Done"
    /\ fetchCalls[r] = 0
    /\ display[r] = "Empty"

\* the nested movie object of an entry is absent: no such field, or null
MovieAbsent(entry) ==
  \/ "movie" \notin DOMAIN entry
  \/ entry.movie.t \in {"undefined", "null"}

\* C2: a fetched entry whose nested movie object is absent is rendered as the
\* "no data" fragment, never as the movie card; the movie card is rendered
\* only for a fetched entry with a nested movie object.
C2_AbsentMovieIsNoData ==
  \A r \in Reqs :
    pc[r] = "Done" =>
      /\ movieEntry[r].t = "object" /\ MovieAbsent(movieEntry[r]) =>
           /\ Contains(Body(r), NoDataFragment)
           /\ ~Contains(Body(r), CardOpen)
      /\ Contains(Body(r), CardOpen) =>
           /\ movieEntry[r].t = "object"
           /\ ~MovieAbsent(movieEntry[r])

C2_Witness ==
  \E r \in Reqs :
    /\ pc[r] = "Done"
    /\ movieEntry[r] = [t |-> "object", movie |-> Null, addedAt |-> AddedAt]
    /\ display[r] = "Empty"

\* building the card of this entry raises: its release date is a value
\* other than a string, null or undefined
BuildRaises(entry) ==
  /\ entry.t = "object"
  /\ ~MovieAbsent(entry)
  /\ "releaseDate" \in DOMAIN entry.movie
  /\ entry.movie.releaseDate.t = "number"
  /\ entry.movie.releaseDate.n # 0

\* C3: an exception that reaches render, however far the request has come,
\* ends in a response carrying the generic "Server Error" fragment and none
\* of the exception's text; no exception leaves render without a response.
C3_ExceptionIsGenericError ==
  \A r \in Reqs :
    /\ pc[r] # "Rejected"
    /\ pc[r] = "Done" /\ Answered(fetchResp[r]) /\ BuildRaises(movieEntry[r]) =>
         caught[r] # <<>>
    /\ caught[r] # <<>> =>
         /\ pc[r] = "Done"
         /\ Len(sent[r]) = 1
         /\ Contains(Body(r), ErrorOpen \o <<"<h1>Server Error</h1>">>)
         /\ ~Contains(Body(r), caught[r])
         /\ \A i \in 1 .. Len(caught[r]) : ~Contains(Body(r), <<caught[r][i]>>)

C3_Witness ==
  \E r \in Reqs :
    /\ pc[r] = "Done"
    /\ caught[r] = NotAFunctionText
    /\ fetchCalls[r] = 1
    /\ Len(sent[r]) = 1

FragmentOpeners == {CardOpen, MessageOpen, ErrorOpen}

OpenersIn(body) == {i \in 1 .. Len(body) : <<body[i]>> \in FragmentOpeners}

\* C4: a finished request has sent exactly one response, with status 200,
\* whose body is the page shell around exactly one of the three fragments,
\* the one its display state names; no request sends more than one response
\* or any other status.
C4_OneResponse200 ==
  \A r \in Reqs :
    /\ Len(sent[r]) <= 1
    /\ pc[r] = "Done" <=> Len(sent[r]) = 1
    /\ \A i \in 1 .. Len(sent[r]) :
         LET body == sent[r][i].body IN
         /\ sent[r][i].status = 200
         /\ SubSeq(body, 1, Len(ShellHead)) = ShellHead
         /\ SubSeq(body, Len(body) - Len(ShellTail) + 1, Len(body)) = ShellTail
         /\ Cardinality(OpenersIn(body)) = 1
         /\ display[r] \in {"Found", "Empty", "Error"}
         /\ display[r] = "Found" <=> Contains(body, CardOpen)
         /\ display[r] = "Empty" <=> Contains(body, MessageOpen)
         /\ display[r] = "Error" <=> Contains(body, ErrorOpen)

C4_Witness ==
  \E r \in Reqs :
    /\ pc[r] = "Done"
    /\ display[r] = "Error"
    /\ sent[r][1].status = 200

IsText(v) == v.t = "string" /\ v.s # <<>>

\* an entry with a nested movie whose title, poster path, release date and
\* overview are all text, the release date at least four characters long
WellFormed(entry) ==
  /\ entry.t = "object"
  /\ ~MovieAbsent(entry)
  /\ entry.movie.t = "object"
  /\ {"title", "posterPath", "releaseDate", "overview"} \subseteq DOMAIN entry.movie
  /\ IsText(entry.movie.title)
  /\ IsText(entry.movie.posterPath)
  /\ IsText(entry.movie.overview)
  /\ IsText(entry.movie.releaseDate)
  /\ Len(entry.movie.releaseDate.s) >= 4

\* C5: when the Fetcher returns a well-formed entry the page is the movie
\* card and contains the entry's title, its poster path, its overview
\* verbatim and, as the release year, exactly the first four characters of
\* the release date.
C5_CardShowsEntry ==
  \A r \in Reqs :
    pc[r] = "Done" /\ Answered(fetchResp[r]) /\ WellFormed(movieEntry[r]) =>
      LET movie == movieEntry[r].movie IN
      /\ Contains(Body(r), CardOpen)
      /\ Contains(Body(r), <<"<h1 class='movie-title'>">> \o movie.title.s \o <<"</h1>">>)
      /\ Contains(Body(r), <<"<img src='">> \o movie.posterPath.s \o <<"' alt='">>)
      /\ Contains(Body(r), <<"<p class='movie-info movie-overview'>">>
                             \o movie.overview.s \o InfoClose)
      /\ Contains(Body(r), InfoOpen \o SubSeq(movie.releaseDate.s, 1, 4) \o InfoClose)

C5_Witness ==
  \E r \in Reqs :
    /\ pc[r] = "Done"
    /\ movieEntry[r] = [t |-> "object", movie |-> Alien, addedAt |-> AddedAt]
    /\ Contains(Body(r), InfoOpen \o <<"1", "9", "7", "9">> \o InfoClose)

TwoDigits(n) == <<ToString(n \div 10), ToString(n % 10)>>

NoLeadingZero(n) == IF n < 10 THEN <<ToString(n)>> ELSE TwoDigits(n)

\* MM / DD - H00 for minute zero, MM / DD - H:MM otherwise
Compact(mo, d, h, mi) ==
  TwoDigits(mo) \o <<" ", "/", " ">> \o TwoDigits(d) \o <<" ", "-", " ">>
  \o NoLeadingZero(h)
  \o (IF mi = 0 THEN <<"0", "0">> ELSE <<":">> \o TwoDigits(mi))

\* C6: for a datetime with local month, day, hour 0..23 and minute 0..59 the
\* Date Formatter returns the zero-padded month and day as "MM / DD - ",
\* then the hour without leading zero followed by "00" when the minute is
\* zero, and otherwise the hour without leading zero, a colon and the
\* zero-padded minute.
C6_CompactDatetime ==
  \A r \in Reqs :
    pc[r] = "Started" /\ "iso" \in DOMAIN NEXT_DT =>
      customMessage[r] =
        Str(Compact(NEXT_DT.iso.mo, NEXT_DT.iso.d, NEXT_DT.iso.h, NEXT_DT.iso.mi))

C6_Witness ==
  /\ NEXT_DT = IsoString(9, 3, 7, 5)
  /\ pc[1] = "Started"
  /\ customMessage[1] =
       Str(<<"0", "9", " ", "/", " ", "0", "3", " ", "-", " ", "7", ":", "0", "5">>)

Missing(v) == v.t = "undefined" \/ (v.t = "string" /\ v.s = <<>>)

Unparsable(v) == v.t = "string" /\ v.s # <<>> /\ "iso" \notin DOMAIN v

\* C7 as stated: for every unset, empty or unparsable NEXT_DT the Date
\* Formatter raises nothing and returns one and the same fallback string,
\* the one it returns for an unset NEXT_DT.
C7_SameFallback ==
  \A r \in Reqs :
    /\ pc[r] # "Rejected"
    /\ pc[r] = "Started" /\ (Missing(NEXT_DT) \/ Unparsable(NEXT_DT)) =>
         customMessage[r] = getDatetimeString(Undefined).value

\* C7 as amended: for every unset, empty or unparsable NEXT_DT the Date
\* Formatter raises nothing and returns a fixed fallback string: one string
\* for an unset or empty NEXT_DT, another for an unparsable one.
C7_TwoFallbacks ==
  \A r \in Reqs :
    /\ pc[r] # "Rejected"
    /\ pc[r] = "Started" /\ Missing(NEXT_DT) => customMessage[r] = Str(NotSetMessage)
    /\ pc[r] = "Started" /\ Unparsable(NEXT_DT) => customMessage[r] = Str(InvalidMessage)

C7_Witness ==
  /\ Unparsable(NEXT_DT)
  /\ pc[1] = "Started"
  /\ customMessage[1] = Str(InvalidMessage)

\* the result list of a successful watchlist response, empty when the
\* response is not a success or its body has no such list
ResultList(resp) ==
  IF /\ Is2xx(resp)
     /\ resp.data.t = "object"
     /\ "watchlist" \in DOMAIN resp.data
     /\ resp.data.watchlist.t = "array"
  THEN resp.data.watchlist.items
  ELSE <<>>

\* C8: the Watchlist Fetcher returns the first entry of the result list when
\* the call succeeds with a non-empty list, and an absent value, raising
\* nothing, when the list is empty, the call fails in transport, the
\* response is non-2xx or its body lacks the list field.
C8_FirstEntryOrAbsent ==
  \A r \in Reqs :
    Answered(fetchResp[r]) =>
      /\ pc[r] = "Done"
      /\ ResultList(fetchResp[r]) # <<>> => movieEntry[r] = ResultList(fetchResp[r])[1]
      /\ ResultList(fetchResp[r]) = <<>> =>
           /\ movieEntry[r] = Null
           /\ caught[r] = <<>>
           /\ display[r] = "Empty"

C8_Witness ==
  \E r \in Reqs :
    /\ Len(ResultList(fetchResp[r])) = 2
    /\ ResultList(fetchResp[r])[1] # ResultList(fetchResp[r])[2]
    /\ movieEntry[r] = ResultList(fetchResp[r])[1]
    /\ pc[r] = "Done"

\* what a request renders, as a function of its own two upstream responses
OwnPage(r) ==
  LET entry == IF Answered(fetchResp[r]) THEN getLastAddedMovie(fetchResp[r]) ELSE Ok(Null)
      built == BuildHtml(entry.value, getDatetimeString(NEXT_DT).value)
  IN PageShell(IF built.thrown THEN ErrorFragment(built.error) ELSE built.value)

\* C9: under every interleaving of concurrent requests each request sends,
\* with its watchlist call, the token its own authentication call returned
\* and no other request's token, and what it renders is determined by its
\* own upstream responses alone.
C9_RequestsIsolated ==
  \A r \in Reqs :
    /\ fetchCalls[r] > 0 =>
         /\ GotToken(authResp[r])
         /\ fetchToken[r] = authResp[r].data.authToken
         /\ \A q \in Reqs \ {r} : fetchToken[r] # IssuedToken(q)
    /\ pc[r] = "Done" => sent[r] = <<[status |-> 200, body |-> OwnPage(r)]>>

C9_Witness ==
  \E r, q \in Reqs :
    /\ r # q
    /\ display[r] = "Error"
    /\ display[q] = "Found"
    /\ fetchToken[r] = IssuedToken(r)
    /\ fetchToken[q] = IssuedToken(q)

Rank(p) ==
  CASE p = "Idle" -> 0
    [] p = "Started" -> 1
    [] p = "Authenticating" -> 2
    [] p = "Fetching" -> 3
    [] p = "Done" -> 4
    [] OTHER -> 5

\* C10: a request only moves forward through Authenticating, Fetching and
\* Done; the authentication call is issued first, the watchlist call only
\* after authentication has completed, and each is issued at most once.
C10_ForwardOnly ==
  /\ [][\A r \in Reqs : Rank(pc[r]) <= Rank(pc'[r])]_vars
  /\ [](\A r \in Reqs :
          /\ authCalls[r] <= 1
          /\ fetchCalls[r] <= 1
          /\ Rank(pc[r]) >= 2 => authCalls[r] = 1
          /\ fetchCalls[r] > 0 => authCalls[r] = 1 /\ Answered(authResp[r])
          /\ pc[r] = "Fetching" <=> fetchCalls[r] = 1 /\ ~Answered(fetchResp[r]))

C10_Witness ==
  \E r \in Reqs :
    /\ pc[r] = "Done"
    /\ authCalls[r] = 1
    /\ fetchCalls[r] = 1
    /\ Answered(fetchResp[r])

====
